---- MODULE Spec2Model ----
(***************************************************************************)
(* Model of github.com/linhbkhn95/golang-british:                          *)
(*   - grpc/middleware/grpcerror: the unary interceptor that converts a    *)
(*     handler's error into a gRPC status error (Spec);                    *)
(*   - logger: the global logger and its once-guarded InitLogger           *)
(*     (LoggerSpec).                                                       *)
(***************************************************************************)
EXTENDS Naturals, Sequences, FiniteSets

----------------------------------------------------------------------------
(* Bounds *)

\* longest Unwrap chain of a handler error (1 = an error that wraps nothing)
MaxDepth == 3
\* interceptor invocations per behaviour
MaxCalls == 2
\* InitLogger calls made by each goroutine
MaxInitCalls == 2

----------------------------------------------------------------------------
(* State *)

\* grpcerror
VARIABLES
    installed,          \* the interceptor has been built
    development,        \* grpcErrorWrapper.development
    internalServerErr,  \* grpcErrorWrapper.internalServerErr
    calls,              \* invocations of the interceptor so far
    hRes, hErr,         \* what the handler returned in the latest invocation
    retRes, retErr,     \* what the interceptor returned in the latest invocation
    logged              \* entries handed to the logger, oldest first

grpcVars == <<installed, development, internalServerErr, calls, hRes, hErr, retRes, retErr, logged>>

\* logger
VARIABLES
    heap,       \* the loggers constructed so far
    log,        \* the package variable log
    onceDone,   \* once: f has completed
    onceM,      \* once: the goroutine holding its mutex, or None
    pc,         \* where each goroutine is in InitLogger
    call,       \* each goroutine's current call: arguments and what it did
    initErr,    \* each goroutine's local err in InitLogger
    result,     \* what each goroutine's latest completed call returned
    ncalls,     \* calls each goroutine has completed
    constructions,  \* calls of NewLogger made by InitLogger
    assignments,    \* writes to log after package initialisation
    attempted,      \* the backend selector each execution of once.Do's function saw
    successLog      \* the logger of the first call that constructed one and returned
                    \* a nil error; NilLogger before there is one

loggerVars == <<heap, log, onceDone, onceM, pc, call, initErr, result, ncalls,
                constructions, assignments, attempted, successLog>>

vars == <<grpcVars, loggerVars>>

----------------------------------------------------------------------------
(* Errors.  An error value is the sequence of its layers, outermost first; *)
(* errors.Unwrap drops the first layer.  The nil error is <<>>.            *)
(* A layer: k its kind, t the tokens its own text contributes, c the code  *)
(* of the status it carries (GRPCStatus), d the number of detail messages  *)
(* its Details() method exposes.                                           *)

NilErr == <<>>
NilRes == "nil"

Plain(t) == [k |-> "plain", t |-> t, c |-> "None", d |-> 0]
StatusLayer(c, m, d) == [k |-> "status", t |-> m, c |-> c, d |-> d]

\* context.Canceled and context.DeadlineExceeded: sentinel values, they wrap nothing
ContextCanceled == <<[k |-> "canceled", t |-> <<"context canceled">>, c |-> "None", d |-> 0]>>
ContextDeadlineExceeded == <<[k |-> "deadline", t |-> <<"context deadline exceeded">>, c |-> "None", d |-> 0]>>

\* layers that may wrap another error: fmt.Errorf("ctx: %w", e), or a type with
\* both Unwrap and GRPCStatus
WrapLayers == {Plain(<<"ctx:">>), StatusLayer("NotFound", <<"denied">>, 0)}

\* errors that wrap nothing
LeafErrors ==
    { <<Plain(<<"boom">>)>>,
      <<StatusLayer("OK", <<"fine">>, 0)>>,
      <<StatusLayer("NotFound", <<"missing">>, 0)>>,
      <<StatusLayer("NotFound", <<"missing">>, 1)>>,
      ContextCanceled, ContextDeadlineExceeded }

RECURSIVE ErrorsOfDepth(_)
ErrorsOfDepth(n) ==
    IF n = 1 THEN LeafErrors
    ELSE {<<l>> \o e : l \in WrapLayers, e \in ErrorsOfDepth(n - 1)}

\* the non-nil errors a handler returns
HandlerErrors == UNION {ErrorsOfDepth(n) : n \in 1..MaxDepth}

\* what a handler returns: a response and no error, or an error and no response
Responses == {NilRes, "res"}
HandlerResults ==
    {<<res, NilErr>> : res \in Responses} \cup {<<NilRes, err>> : err \in HandlerErrors}

\* the values configured as internalServerErr
CatchAlls ==
    { <<Plain(<<"internal server error">>)>>,
      <<StatusLayer("Internal", <<"internal">>, 0)>> }

\* err.Error(): a status error renders code and description, a wrapper renders
\* its own text before its cause's
RECURSIVE ErrorText(_)
ErrorText(err) ==
    IF err = NilErr THEN <<>>
    ELSE LET l == Head(err)
             own == IF l.k = "status"
                    THEN <<"rpc error: code =", l.c, "desc =">> \o l.t
                    ELSE l.t
         IN own \o ErrorText(Tail(err))

\* sub occurs in text as a contiguous run of tokens
Contains(text, sub) ==
    \E i \in 0..(Len(text) - Len(sub)) :
        \A j \in 1..Len(sub) : text[i + j] = sub[j]

\* errors.Is(err, target) for a sentinel target
IsErr(err, target) == \E i \in 1..Len(err) : SubSeq(err, i, Len(err)) = target

(* google.golang.org/grpc/status, as the interceptor uses it.  A Status is  *)
(* [code, msg, details].                                                    *)

NewStatus(c, m) == [code |-> c, msg |-> m, details |-> 0]

\* (*Status).Err(): nil for code OK
StatusErr(s) ==
    IF s.code = "OK" THEN NilErr
    ELSE <<StatusLayer(s.code, s.msg, s.details)>>

\* status.FromContextError(err), err non-nil
FromContextError(err) ==
    IF IsErr(err, ContextDeadlineExceeded) THEN NewStatus("DeadlineExceeded", ErrorText(err))
    ELSE IF IsErr(err, ContextCanceled) THEN NewStatus("Canceled", ErrorText(err))
    ELSE NewStatus("Unknown", ErrorText(err))

\* status.FromError(err), err non-nil: a type assertion on err itself
FromError(err) ==
    IF Head(err).k = "status"
    THEN [stt |-> [code |-> Head(err).c, msg |-> Head(err).t, details |-> 0], ok |-> TRUE]
    ELSE [stt |-> NewStatus("Unknown", ErrorText(err)), ok |-> FALSE]

\* (*Status).WithDetails(ds...): fails for code OK
WithDetails(s, n) ==
    IF s.code = "OK" THEN [s |-> s, err |-> TRUE]
    ELSE [s |-> [s EXCEPT !.details = s.details + n], err |-> FALSE]

\* status.Error(c, msg)
StatusError(c, m) == StatusErr(NewStatus(c, m))

----------------------------------------------------------------------------
(* grpcerror *)

Entry(level, msg, err) == [level |-> level, msg |-> msg, error |-> err]

\* mutant: the error is classified as given, never unwrapped
unwrapErrNotAtAll(err) == err

\* mutant: the whole chain is unwrapped, down to the innermost cause
unwrapErrToRoot(err) == SubSeq(err, Len(err), Len(err))

unwrapErr(err) ==
    LET wrappedErr == Tail(err)
    IN IF wrappedErr # NilErr THEN wrappedErr ELSE err

\* GRPCError(err) of the wrapper w: the error returned and the entries logged
GRPCError(w, err) ==
    LET wrappedErr == unwrapErr(err)
        fe == FromError(wrappedErr)
        wd == WithDetails(fe.stt, Head(wrappedErr).d)
        stt == IF ~wd.err THEN wd.s ELSE fe.stt
    IN IF wrappedErr = ContextCanceled \/ wrappedErr = ContextDeadlineExceeded
       THEN [err |-> StatusErr(FromContextError(wrappedErr)), log |-> <<>>]
       ELSE IF ~fe.ok
       THEN [err |-> StatusErr(FromContextError(wrappedErr)), log |-> <<>>]
       ELSE IF w.development
       THEN [err |-> StatusError(stt.code, ErrorText(err)),
             log |-> <<Entry("warn", "getting error...", err)>>]
       ELSE IF fe.ok
       THEN [err |-> StatusErr(stt), log |-> <<>>]
       ELSE [err |-> w.internalServerErr,
             log |-> <<Entry("error", "unexpected error...", err)>>]

\* mutant: the response is dropped on the success path too, and the call is logged
InterceptLoud(res, err) ==
    /\ installed
    /\ calls < MaxCalls
    /\ calls' = calls + 1
    /\ hRes' = res
    /\ hErr' = err
    /\ retRes' = NilRes
    /\ retErr' = IF err # NilErr
                 THEN GRPCError([development |-> development,
                                 internalServerErr |-> internalServerErr], err).err
                 ELSE NilErr
    /\ logged' = Append(logged, Entry("warn", "getting error...", err))
    /\ UNCHANGED <<installed, development, internalServerErr>>
    /\ UNCHANGED loggerVars

\* the function UnaryServerInterceptor returns, invoked once around a handler that
\* returns (res, err)
Intercept(res, err) ==
    /\ installed
    /\ calls < MaxCalls
    /\ calls' = calls + 1
    /\ hRes' = res
    /\ hErr' = err
    /\ IF err # NilErr
       THEN LET out == GRPCError([development |-> development,
                                  internalServerErr |-> internalServerErr], err)
            IN /\ retRes' = NilRes
               /\ retErr' = out.err
               /\ logged' = logged \o out.log
       ELSE /\ retRes' = res
            /\ retErr' = NilErr
            /\ logged' = logged
    /\ UNCHANGED <<installed, development, internalServerErr>>
    /\ UNCHANGED loggerVars

\* before the interceptor is built: the zero grpcErrorWrapper
GrpcInit ==
    /\ installed = FALSE
    /\ development = FALSE
    /\ internalServerErr = NilErr
    /\ calls = 0
    /\ hRes = NilRes
    /\ hErr = NilErr
    /\ retRes = NilRes
    /\ retErr = NilErr
    /\ logged = <<>>

\* UnaryServerInterceptor(development, internalServerErr): the wrapper is built
UnaryServerInterceptor(dev, ise) ==
    /\ ~installed
    /\ installed' = TRUE
    /\ development' = dev
    /\ internalServerErr' = ise
    /\ UNCHANGED <<calls, hRes, hErr, retRes, retErr, logged>>
    /\ UNCHANGED loggerVars

----------------------------------------------------------------------------
(* logger.  A Logger value is a reference: 0 is nil, n > 0 is heap[n], the  *)
(* n-th logger constructed.  An error value is its text, NoError for nil.   *)

LoggerBackendZap == 0
LoggerBackendLogrus == 1
\* the backend selectors callers pass: the two known ones and one that is neither
Backends == {LoggerBackendZap, LoggerBackendLogrus, 2}

NilLogger == 0
NoError == "nil"
errInvalidLoggerInstance == "invalid logger instance"

infoLvl == "info"
debugLvl == "debug"
\* Configuration, by the field that tells the configurations used here apart
Configurations == {[ConsoleLevel |-> l] : l \in {infoLvl, debugLvl}}

Goroutines == {"g1", "g2"}
None == "none"

DefaultConfiguration == [ConsoleLevel |-> infoLvl]

\* newZapLogger(config), newLogrusLogger(config): a new logger over the backend,
\* built from config; the logger, the error and the heap after
newBackendLogger(h, config, backend) ==
    [logger |-> Len(h) + 1, err |-> NoError,
     heap |-> Append(h, [backend |-> backend, config |-> config])]

NewLogger(h, config, backend) ==
    IF backend = LoggerBackendZap THEN newBackendLogger(h, config, backend)
    ELSE IF backend = LoggerBackendLogrus THEN newBackendLogger(h, config, backend)
    ELSE [logger |-> NilLogger, err |-> errInvalidLoggerInstance, heap |-> h]

\* var log = DefaultLogger()
DefaultLogger == newBackendLogger(<<>>, DefaultConfiguration, LoggerBackendZap)

NoCall == [config |-> DefaultConfiguration, backend |-> LoggerBackendZap,
           first |-> FALSE, beforeDone |-> FALSE, afterSuccess |-> FALSE, ranF |-> FALSE]
NoResult == [valid |-> FALSE, logger |-> NilLogger, err |-> NoError, call |-> NoCall]

LoggerInit ==
    /\ heap = DefaultLogger.heap
    /\ log = DefaultLogger.logger
    /\ onceDone = FALSE
    /\ onceM = None
    /\ pc = [g \in Goroutines |-> "idle"]
    /\ call = [g \in Goroutines |-> NoCall]
    /\ initErr = [g \in Goroutines |-> NoError]
    /\ result = [g \in Goroutines |-> NoResult]
    /\ ncalls = [g \in Goroutines |-> 0]
    /\ constructions = 0
    /\ assignments = 0
    /\ attempted = <<>>
    /\ successLog = NilLogger

\* InitLogger is entered: var err error
InitLoggerCall(g, config, backend) ==
    /\ pc[g] = "idle"
    /\ ncalls[g] < MaxInitCalls
    /\ pc' = [pc EXCEPT ![g] = "once"]
    /\ initErr' = [initErr EXCEPT ![g] = NoError]
    /\ call' = [call EXCEPT ![g] =
                  [config |-> config, backend |-> backend,
                   first |-> ncalls[g] = 0, beforeDone |-> ~onceDone,
                   afterSuccess |-> successLog # NilLogger, ranF |-> FALSE]]
    /\ UNCHANGED <<heap, log, onceDone, onceM, result, ncalls,
                   constructions, assignments, attempted, successLog>>
    /\ UNCHANGED grpcVars

\* once.Do, fast path: the load of done
OnceDo(g) ==
    /\ pc[g] = "once"
    /\ pc' = [pc EXCEPT ![g] = IF onceDone THEN "return" ELSE "lock"]
    /\ UNCHANGED <<heap, log, onceDone, onceM, call, initErr, result, ncalls,
                   constructions, assignments, attempted, successLog>>
    /\ UNCHANGED grpcVars

\* once.Do, slow path: the mutex is taken and done is read again
OnceLock(g) ==
    /\ pc[g] = "lock"
    /\ onceM = None
    /\ IF onceDone
       THEN /\ pc' = [pc EXCEPT ![g] = "return"]
            /\ UNCHANGED onceM
       ELSE /\ pc' = [pc EXCEPT ![g] = "f"]
            /\ onceM' = g
    /\ UNCHANGED <<heap, log, onceDone, call, initErr, result, ncalls,
                   constructions, assignments, attempted, successLog>>
    /\ UNCHANGED grpcVars

\* mutant: the function runs but done is never stored, so every call runs it again
InitLoggerFNotOnce(g) ==
    /\ pc[g] = "f"
    /\ LET new == NewLogger(heap, call[g].config, call[g].backend)
           known == call[g].backend \in {LoggerBackendZap, LoggerBackendLogrus}
       IN /\ heap' = new.heap
          /\ log' = IF known THEN new.logger ELSE log
          /\ initErr' = [initErr EXCEPT ![g] = new.err]
          /\ constructions' = constructions + (IF known THEN 1 ELSE 0)
          /\ assignments' = assignments + (IF known THEN 1 ELSE 0)
    /\ attempted' = Append(attempted, call[g].backend)
    /\ call' = [call EXCEPT ![g].ranF = TRUE]
    /\ onceM' = None
    /\ pc' = [pc EXCEPT ![g] = "return"]
    /\ UNCHANGED <<onceDone, result, ncalls, successLog>>
    /\ UNCHANGED grpcVars

\* mutant: the default case assigns NewLogger's results like the other two cases
InitLoggerFAssignsAlways(g) ==
    /\ pc[g] = "f"
    /\ LET new == NewLogger(heap, call[g].config, call[g].backend)
           known == call[g].backend \in {LoggerBackendZap, LoggerBackendLogrus}
       IN /\ heap' = new.heap
          /\ log' = new.logger
          /\ initErr' = [initErr EXCEPT ![g] = new.err]
          /\ constructions' = constructions + (IF known THEN 1 ELSE 0)
          /\ assignments' = assignments + 1
    /\ attempted' = Append(attempted, call[g].backend)
    /\ call' = [call EXCEPT ![g].ranF = TRUE]
    /\ onceDone' = TRUE
    /\ onceM' = None
    /\ pc' = [pc EXCEPT ![g] = "return"]
    /\ UNCHANGED <<result, ncalls, successLog>>
    /\ UNCHANGED grpcVars

\* the function InitLogger passes to once.Do, run under once's mutex; done is
\* stored and the mutex released when it returns
InitLoggerF(g) ==
    /\ pc[g] = "f"
    /\ IF call[g].backend = LoggerBackendZap \/ call[g].backend = LoggerBackendLogrus
       THEN LET new == NewLogger(heap, call[g].config, call[g].backend)
            IN /\ heap' = new.heap
               /\ log' = new.logger
               /\ initErr' = [initErr EXCEPT ![g] = new.err]
               /\ constructions' = constructions + 1
               /\ assignments' = assignments + 1
       ELSE /\ initErr' = [initErr EXCEPT ![g] = errInvalidLoggerInstance]
            /\ UNCHANGED <<heap, log, constructions, assignments>>
    /\ attempted' = Append(attempted, call[g].backend)
    /\ call' = [call EXCEPT ![g].ranF = TRUE]
    /\ onceDone' = TRUE
    /\ onceM' = None
    /\ pc' = [pc EXCEPT ![g] = "return"]
    /\ UNCHANGED <<result, ncalls, successLog>>
    /\ UNCHANGED grpcVars

\* return log, err
InitLoggerReturn(g) ==
    /\ pc[g] = "return"
    /\ result' = [result EXCEPT ![g] =
                    [valid |-> TRUE, logger |-> log, err |-> initErr[g], call |-> call[g]]]
    /\ successLog' = IF successLog = NilLogger /\ call[g].ranF /\ initErr[g] = NoError
                        /\ log # NilLogger
                     THEN log ELSE successLog
    /\ ncalls' = [ncalls EXCEPT ![g] = ncalls[g] + 1]
    /\ pc' = [pc EXCEPT ![g] = "idle"]
    /\ call' = [call EXCEPT ![g] = NoCall]
    /\ initErr' = [initErr EXCEPT ![g] = NoError]
    /\ UNCHANGED <<heap, log, onceDone, onceM, constructions, assignments, attempted>>
    /\ UNCHANGED grpcVars

----------------------------------------------------------------------------

Init == GrpcInit /\ LoggerInit

\* the interceptor is built and serves calls
Next ==
    \/ \E dev \in BOOLEAN, ise \in CatchAlls : UnaryServerInterceptor(dev, ise)
    \/ \E h \in HandlerResults : Intercept(h[1], h[2])

Spec == Init /\ [][Next]_vars

\* goroutines call InitLogger
NextLogger ==
    \E g \in Goroutines :
        \/ \E config \in Configurations, backend \in Backends :
               InitLoggerCall(g, config, backend)
        \/ OnceDo(g)
        \/ OnceLock(g)
        \/ InitLoggerF(g)
        \/ InitLoggerReturn(g)

LoggerSpec == Init /\ [][NextLogger]_vars

----------------------------------------------------------------------------
(* Properties of the interceptor *)

Invoked == calls > 0
IsContextErr(e) == e = ContextCanceled \/ e = ContextDeadlineExceeded
CarriesStatus(e) == e # NilErr /\ Head(e).k = "status"
\* the error itself, or its immediate cause
ContextErrWithinOne(e) == IsContextErr(e) \/ (Len(e) = 2 /\ IsContextErr(Tail(e)))
StatusWithinOne(e) == CarriesStatus(e) \/ (Len(e) >= 2 /\ CarriesStatus(Tail(e)))
\* the error the interceptor classifies: the immediate cause if there is one
Cause(e) == IF Len(e) >= 2 THEN Tail(e) ELSE e
IsStatusErr(e) == Len(e) = 1 /\ Head(e).k = "status"
\* status.Code(err)
CodeOf(e) == IF e = NilErr THEN "OK" ELSE IF Head(e).k = "status" THEN Head(e).c ELSE "Unknown"
\* the message of the status an error carries
MessageOf(e) == IF CarriesStatus(e) THEN Head(e).t ELSE <<>>

\* C1: in production mode an error that is neither cancellation/deadline nor
\* status-carrying (directly or one unwrap down) is answered with the configured
\* internalServerErr, and the answer does not contain the original error's text.
C1_ProductionCatchAll ==
    (Invoked /\ ~development /\ hErr # NilErr
       /\ ~ContextErrWithinOne(hErr) /\ ~StatusWithinOne(hErr))
    => /\ retErr = internalServerErr
       /\ ~Contains(ErrorText(retErr), ErrorText(hErr))

\* C5: in development mode the message of the returned status is the text of the
\* handler's error as returned (before the unwrap), classified or not, wrapped or not.
\* (Read over the errors that are not cancellation/deadline and for which a status
\* error is returned.)
C5_DevelopmentOriginalText ==
    (Invoked /\ development /\ hErr # NilErr /\ ~ContextErrWithinOne(hErr)
       /\ retErr # NilErr)
    => MessageOf(retErr) = ErrorText(hErr)

\* C6: a handler error that is context cancellation or deadline expiry, directly or
\* wrapped one level, is answered with a status of the matching code in both modes,
\* never with internalServerErr.
C6_ContextErrors ==
    (Invoked /\ ContextErrWithinOne(hErr))
    => /\ IsStatusErr(retErr)
       /\ retErr # internalServerErr
       /\ Head(retErr).c = IF Cause(hErr) = ContextCanceled
                           THEN "Canceled" ELSE "DeadlineExceeded"

C6_Witness ==
    /\ Invoked /\ ~development
    /\ Len(hErr) = 2 /\ Tail(hErr) = ContextDeadlineExceeded
    /\ Head(hErr).k = "status"
    /\ IsStatusErr(retErr) /\ Head(retErr).c = "DeadlineExceeded"

\* C7: a handler error wrapping, one level down, an error that carries a status is
\* answered with a status of the same code, in development and production alike.
C7_WrappedStatusCode ==
    (Invoked /\ Len(hErr) >= 2 /\ CarriesStatus(Tail(hErr)))
    => CodeOf(retErr) = Head(Tail(hErr)).c

C7_Witness ==
    /\ Invoked /\ development
    /\ Len(hErr) = 3
    /\ Head(hErr).k = "plain"
    /\ CarriesStatus(Tail(hErr)) /\ ~CarriesStatus(Tail(Tail(hErr)))
    /\ IsStatusErr(retErr) /\ Head(retErr).c = "NotFound"

\* C8: when the handler returns no error the interceptor returns the handler's
\* response with a nil error, logs nothing and leaves its configuration alone.
C8_SuccessPassThrough ==
    [][(calls' = calls + 1 /\ hErr' = NilErr)
         => /\ retRes' = hRes'
            /\ retErr' = NilErr
            /\ logged' = logged
            /\ development' = development
            /\ internalServerErr' = internalServerErr]_grpcVars

C8_Witness ==
    /\ calls = 2
    /\ hErr = NilErr /\ hRes = "res"
    /\ retRes = "res" /\ retErr = NilErr
    /\ Len(logged) = 1

\* C9: for a handler error that is not cancellation/deadline, development mode logs
\* one warning entry holding the error; production mode logs one error entry when
\* classification failed and nothing when it succeeded.
C9_LogEmission ==
    [][(calls' = calls + 1 /\ hErr' # NilErr /\ ~ContextErrWithinOne(hErr'))
         => logged' = logged \o
              (IF development
               THEN <<Entry("warn", "getting error...", hErr')>>
               ELSE IF CarriesStatus(Cause(hErr'))
               THEN <<>>
               ELSE <<Entry("error", "unexpected error...", hErr')>>)]_grpcVars

----------------------------------------------------------------------------
(* Properties of InitLogger *)

KnownBackends == {LoggerBackendZap, LoggerBackendLogrus}
Returned(g) == result[g].valid

\* C2: once a call has constructed the logger and returned a nil error, every call
\* made afterwards, whatever its configuration and backend, returns that same
\* logger and constructs nothing.
C2_SingletonAfterSuccess ==
    /\ successLog # NilLogger
         => /\ log = successLog
            /\ constructions = 1
            /\ Len(heap) = successLog
    /\ \A g \in Goroutines :
         (Returned(g) /\ result[g].call.afterSuccess)
           => /\ result[g].logger = successLog
              /\ ~result[g].call.ranF

C2_Witness ==
    \E g \in Goroutines :
        /\ Returned(g) /\ result[g].call.afterSuccess
        /\ result[g].call.backend \notin KnownBackends
        /\ result[g].call.config # heap[successLog].config
        /\ result[g].logger = successLog
        /\ successLog # DefaultLogger.logger

\* C3: a call with a backend selector that matches no known backend returns the
\* "invalid logger instance" error and a nil logger.
C3_UnknownBackend ==
    \A g \in Goroutines :
        (Returned(g) /\ result[g].call.backend \notin KnownBackends)
          => /\ result[g].err = errInvalidLoggerInstance
             /\ result[g].logger = NilLogger

\* C4: among concurrent first calls exactly one construction attempt runs, and all
\* of them return the same logger and the same error.
C4_ConcurrentFirstCalls ==
    /\ Len(attempted) <= 1
    /\ \A g, h \in Goroutines :
         (/\ Returned(g) /\ result[g].call.first /\ result[g].call.beforeDone
          /\ Returned(h) /\ result[h].call.first /\ result[h].call.beforeDone)
           => /\ result[g].logger = result[h].logger
              /\ result[g].err = result[h].err

\* C10: log is assigned at most once; when the one execution of once.Do's function
\* saw an unknown backend, log stays the default logger, nothing is ever
\* constructed, and every other call returns the default logger and a nil error.
C10_InvalidFirstConsumesOnce ==
    /\ assignments <= 1
    /\ Len(attempted) <= 1
    /\ (attempted # <<>> /\ attempted[1] \notin KnownBackends)
         => /\ log = DefaultLogger.logger
            /\ heap = DefaultLogger.heap
            /\ constructions = 0
            /\ \A g \in Goroutines :
                 (Returned(g) /\ ~result[g].call.ranF)
                   => /\ result[g].logger = DefaultLogger.logger
                      /\ result[g].err = NoError

C10_Witness ==
    /\ attempted # <<>> /\ attempted[1] \notin KnownBackends
    /\ \E g \in Goroutines :
         /\ Returned(g) /\ ~result[g].call.ranF
         /\ ~result[g].call.beforeDone
         /\ result[g].call.backend = LoggerBackendLogrus
         /\ result[g].logger = DefaultLogger.logger
         /\ result[g].err = NoError

====
